---- MODULE Spec2Model ----
(***************************************************************************)
(* Risk scoring engine of the fraud detection service:                     *)
(*   - FraudDetectionService (rule engine over Redis windows),             *)
(*   - MLService (learned scorer with amount-bucket fallback),             *)
(*   - the /check route that fuses both and stores the transaction.        *)
(*                                                                         *)
(* Numbers.  Scores are fixed-point thousandths (0.8 is 800); the fused    *)
(* score is kept in ten-thousandths so that 0.6*r + 0.4*m is exact.        *)
(* Times are milliseconds since local midnight of the first day.           *)
(* Coordinates are degrees * 10^4.                                         *)
(***************************************************************************)
EXTENDS Integers, Sequences, FiniteSets, TLC

(***************************************************************************)
(* Bounded universe                                                        *)
(***************************************************************************)
Users   == {"u1", "u2"}
Devices == {"d1", "d2"}
Procs   == {1, 2}            \* /check requests of one behaviour

NoLoc == [latitude |-> 0, longitude |-> 0, present |-> FALSE]
Lagos == [latitude |-> 65244, longitude |-> 33792, present |-> TRUE]
Ikeja == [latitude |-> 66018, longitude |-> 33515, present |-> TRUE]
Abuja == [latitude |-> 90765, longitude |-> 73986, present |-> TRUE]
Locs  == {Lagos, Ikeja, Abuja}

Amounts == {5000, 150000, 600000, 2000000}

Tx(u, d, a, l) == [userId |-> u, deviceId |-> d, amount |-> a, location |-> l]

\* traffic profiles: each varies some fields of the transactions submitted
ByUserDevice == {Tx(u, d, 5000, NoLoc) : u \in Users, d \in Devices}
ByLocation   == {Tx("u1", "d1", 5000, l) : l \in Locs \cup {NoLoc}}
ByAmount     == {Tx("u1", "d1", a, NoLoc) : a \in Amounts}
Mixed        == {Tx(u, "d1", 2000000, l) : u \in Users, l \in {Lagos, Abuja}}
Rejected     == {Tx("u1", "d1", 0, NoLoc), Tx("u1", "", 5000, NoLoc),
                 Tx("u1", "d1", 5000, [Lagos EXCEPT !.longitude = 0])}
Workloads    == {ByUserDevice, ByLocation, ByAmount, Mixed, Rejected}

(***************************************************************************)
(* Fixed-point real arithmetic used by calculateDistance.                  *)
(* Angles are micro-radians, trigonometric values are 10^-4.               *)
(***************************************************************************)
Scale == 10000

Abs(x) == IF x < 0 THEN -x ELSE x

RECURSIVE SqrtIter(_, _, _)
SqrtIter(n, lo, hi) ==
  IF lo >= hi THEN lo
  ELSE LET mid == (lo + hi + 1) \div 2
       IN IF mid * mid <= n THEN SqrtIter(n, mid, hi)
                            ELSE SqrtIter(n, lo, mid - 1)

\* Math.sqrt on a value scaled by Scale^2, result scaled by Scale
Sqrt(n) == SqrtIter(n, 0, 20000)

\* Math.sin, Taylor polynomial x - x^3/6 + x^5/120
SinPos(x) ==
  LET y  == x \div 100
      y2 == (y * y) \div Scale
      y3 == (y2 * y) \div Scale
      y5 == (y3 * y2) \div Scale
  IN  y - (y3 \div 6) + (y5 \div 120)

Sin(x) == IF x < 0 THEN -SinPos(-x) ELSE SinPos(x)

\* Math.cos, Taylor polynomial 1 - x^2/2 + x^4/24 - x^6/720
Cos(x) ==
  LET y  == Abs(x) \div 100
      y2 == (y * y) \div Scale
      y4 == (y2 * y2) \div Scale
      y6 == (y4 * y2) \div Scale
  IN  Scale - (y2 \div 2) + (y4 \div 24) - (y6 \div 720)

\* arctangent of t in [0, 1] (t scaled by Scale), result in 10^-4 rad:
\* one half-angle reduction, then t - t^3/3 + t^5/5 - t^7/7
AtanUnit(t) ==
  LET u  == (t * Scale) \div (Scale + Sqrt(Scale * Scale + t * t))
      u2 == (u * u) \div Scale
      u3 == (u2 * u) \div Scale
      u5 == (u3 * u2) \div Scale
      u7 == (u5 * u2) \div Scale
  IN  2 * (u - (u3 \div 3) + (u5 \div 5) - (u7 \div 7))

HalfPi == 15708

\* Math.atan2(y, x) for y >= 0, x >= 0
Atan2(y, x) ==
  IF y = 0 THEN 0
  ELSE IF x = 0 THEN HalfPi
  ELSE IF y <= x THEN AtanUnit((y * Scale) \div x)
  ELSE HalfPi - AtanUnit((x * Scale) \div y)

\* deg * (Math.PI / 180): degrees*10^4 to micro-radians
deg2rad(deg) ==
  LET d == Abs(deg)
      r == (d \div 10000) * 17453 + ((d % 10000) * 17453) \div 10000
  IN  IF deg < 0 THEN -r ELSE r

EarthRadiusKm == 6371

\* Haversine distance, result in units of 100 m
calculateDistance(lat1, lon1, lat2, lon2) ==
  LET dLat == deg2rad(lat2 - lat1)
      dLon == deg2rad(lon2 - lon1)
      sLat == Sin(dLat \div 2)
      sLon == Sin(dLon \div 2)
      cc   == (Cos(deg2rad(lat1)) * Cos(deg2rad(lat2))) \div Scale
      a    == sLat * sLat + ((cc * sLon) \div Scale) * sLon
      c    == 2 * Atan2(Sqrt(a), Sqrt(Scale * Scale - a))
  IN  (EarthRadiusKm * c) \div 1000

(***************************************************************************)
(* Program constants                                                       *)
(***************************************************************************)
maxTransactionAmount == 1000000
maxVelocityPerMinute == 5
maxVelocityPerHour   == 20
nightTimeStart       == 23
nightTimeEnd         == 5
MinuteMs == 60000
HourMs   == 3600000
VelocityTtlMs == 3600000
CacheTtlMs    == 3600000
GeoThreshold  == 1000        \* 100 km in units of 100 m
FlagThreshold == 7000        \* 0.7 in ten-thousandths
FraudulentThreshold == 700   \* 0.7 in thousandths

\* rule contributions (thousandths) and reasons
VelocityMinuteScore == 800
VelocityHourScore   == 600
AmountSpikeScore    == 700
RoundNumberScore    == 300
DeviceScore         == 700
GeoScore            == 600
AmountCapScore      == 500
NightScore          == 300
ReasonVelMinute == "High transaction velocity detected (per minute)"
ReasonVelHour   == "High transaction velocity detected (per hour)"
ReasonSpike     == "Transaction amount significantly higher than usual pattern"
ReasonRound     == "Round number transaction detected"
ReasonDevice    == "Device associated with multiple users"
ReasonGeo       == "Unusual geographical location"
ReasonCap       == "Transaction amount exceeds threshold"
ReasonNight     == "Night time transaction"

(***************************************************************************)
(* Bounds of the exploration                                               *)
(***************************************************************************)
PreloadBurst  == 4      \* samples of u1 in the minute before the start
PreloadHourly == 19     \* older samples of u1 in the hour before the start
StartClock    == 43200000                 \* 12:00:00 local time
Delays        == {1000, 39600000}         \* 1 s, 11 h
ModelOutputs  == {0, 550, 1000}          \* sigmoid outputs, thousandths

(***************************************************************************)
(* State                                                                   *)
(***************************************************************************)
VARIABLES
  workload,     \* the transactions clients submit in this behaviour
  clock,        \* wall clock: Date.now(), ms since local midnight of day 0
  velocity,     \* Redis sorted set velocity:<u>, members <<amount, now>>
  velTTL,       \* expiry time of velocity:<u>, NoTTL when none
  amountHist,   \* Redis sorted set amount:<u>
  device,       \* Redis set device:<d> of user ids
  lastGeo,      \* Redis string geo:<u>, "<lat>:<lon>" or absent
  model,        \* MLService.model: "null", "compiled" or "loaded"
  mlpc,         \* position of MLService.initializeModel
  pc,           \* position of each /check request
  req,          \* locals of each /check request
  resp,         \* HTTP response of each /check request
  txs,          \* Transaction collection (MongoDB), in insertion order
  txCache,      \* Redis strings tx:<id>
  env,          \* process.env as the configuration module reads it
  version,      \* Redis counter ml:model:version
  weights,      \* gradient steps applied to each layer of MLService.model
  training,     \* the model's isTraining flag: a fit() call is ongoing
  disk,         \* weights in ./models/fraud_model, NoWeights when no file
  report,       \* position, locals and response of each /report-fraud request
  history       \* Redis lists tx:<u>:24h, tx:<u>:7d and set user_devices:<u>:24h

vars == <<workload, clock, velocity, velTTL, amountHist, device, lastGeo,
          model, mlpc, pc, req, resp, txs, txCache,
          env, version, weights, training, disk, report, history>>

NoTTL    == -1
NoGeo    == <<>>
NoReason == ""
NaN      == -1
NoResp   == [status |-> 0]
NoCheck  == [score |-> 0, reason |-> NoReason]
NoTx     == [userId |-> "", deviceId |-> "", amount |-> 0, location |-> NoLoc]

\* process.env: 0 stands for a variable that is not set
DefaultEnv == [ENABLE_ML_MODEL |-> "", FRAUD_THRESHOLD |-> 0,
               RULE_WEIGHT |-> 6, MODEL_WEIGHT |-> 4]
ModelOffEnv  == [DefaultEnv EXCEPT !.ENABLE_ML_MODEL = "false"]
ThresholdEnv == [DefaultEnv EXCEPT !.FRAUD_THRESHOLD = 500]
RuleOnlyEnv  == [DefaultEnv EXCEPT !.RULE_WEIGHT = 10, !.MODEL_WEIGHT = 0]
Envs         == {DefaultEnv, ModelOffEnv, ThresholdEnv, RuleOnlyEnv}

\* config.features.enableMLModel: process.env.ENABLE_ML_MODEL !== "false"
enableMLModel == env.ENABLE_ML_MODEL # "false"

\* config.thresholds.fraudThreshold: parseFloat(FRAUD_THRESHOLD || "0.7"),
\* in thousandths
fraudThreshold == IF env.FRAUD_THRESHOLD = 0 THEN 700 ELSE env.FRAUD_THRESHOLD

\* weights of the model, one count of applied gradient steps per layer
NoWeights    == <<>>
FreshWeights == <<0, 0>>

\* variant in which a step has reached the first layer only
applyGradients_torn(w) == [l \in DOMAIN w |-> IF l = 1 THEN w[l] + 1 ELSE w[l]]

\* one optimizer step of model.fit: every layer moves in the same call
applyGradients(w) == [l \in DOMAIN w |-> w[l] + 1]

\* weights after createModel and the dummy fit
InitializedWeights == applyGradients(FreshWeights)

\* /report-fraud slots
Reports  == {1, 2}
NoReport == [pc |-> "idle", transactionId |-> 0, wasActuallyFraud |-> "",
             versionBefore |-> 0, fitted |-> FALSE, status |-> 0]

\* `${latitude}:${longitude}` and lastLocation.split(":").map(Number)
formatGeo(latitude, longitude) == <<latitude, longitude>>
parseGeo(s) == [lat |-> s[1], lon |-> s[2]]

\* `${amount}:${now}`, the sorted-set member; its score is now
member(amount, now) == <<amount, now>>
scoreOf(m) == m[2]

\* new Date().getHours()
getHours(t) == (t \div HourMs) % 24

\* redis.zrangebyscore(key, min, max) on the content of a sorted set
zrangebyscore(set, min, max) == {m \in set : min <= scoreOf(m) /\ scoreOf(m) <= max}

\* content of velocity:<u> as Redis serves it: an expired key is absent
velocityAt(u, t) ==
  IF velTTL[u] = NoTTL \/ t < velTTL[u] THEN velocity[u] ELSE {}

velocityKey(u) == velocityAt(u, clock)

(***************************************************************************)
(* MLService.preprocessFeatures                                            *)
(***************************************************************************)
\* a JavaScript number: NaN is kept apart from the values
Num(v)     == [nan |-> FALSE, v |-> v]
NotANumber == [nan |-> TRUE, v |-> 0]

\* a + b of reduce((a, b) => a + b, 0): NaN, or undefined, makes the sum NaN
plus(a, b) == IF a.nan \/ b.nan THEN NotANumber ELSE Num(a.v + b.v)

\* strings of a history list: '{"amount":5000}', '{"ref":"r1"}' (parses, has
\* no amount) and 'r1' (does not parse)
EntryWithAmount == [json |-> TRUE, amount |-> Num(5000)]
EntryNoAmount   == [json |-> TRUE, amount |-> NotANumber]
EntryNotJson    == [json |-> FALSE, amount |-> NotANumber]
Entries         == {EntryWithAmount, EntryNoAmount, EntryNotJson}

\* try { return JSON.parse(tx).amount } catch { return 0 }
parsedAmount(e) == IF e.json THEN e.amount ELSE Num(0)

RECURSIVE reduceSum(_)
reduceSum(list) ==
  IF list = <<>> THEN Num(0)
  ELSE plus(parsedAmount(Head(list)), reduceSum(Tail(list)))

\* amounts.length > 0 ? sum / amounts.length : 0, in whole units
avgAmount(list) ==
  LET sum == reduceSum(list)
  IN  IF list = <<>> THEN Num(0)
      ELSE IF sum.nan THEN NotANumber ELSE Num(sum.v \div Len(list))

\* the keys only preprocessFeatures touches, as no request wrote to them
NoHistory == [tx24h |-> <<>>, tx7d |-> <<>>, userDevices |-> {}]

\* new Date(t).getDay(), day 0 of the clock being a Sunday
getDay(t) == (t \div (24 * HourMs)) % 7

\* FEATURE_STATS, mean and std multiplied by scale
FEATURE_STATS ==
  << [mean |-> 50000, std |-> 200000, scale |-> 1],    \* amount
     [mean |-> 1200,  std |-> 693,    scale |-> 100],  \* hour
     [mean |-> 300,   std |-> 200,    scale |-> 100],  \* dayOfWeek
     [mean |-> 10,    std |-> 30,     scale |-> 100],  \* isNewDevice
     [mean |-> 120,   std |-> 50,     scale |-> 100],  \* deviceUserCount
     [mean |-> 250,   std |-> 320,    scale |-> 100],  \* txCountLast24h
     [mean |-> 45000, std |-> 180000, scale |-> 1],    \* avgAmountLast24h
     [mean |-> 1200,  std |-> 1500,   scale |-> 100],  \* txCountLast7d
     [mean |-> 48000, std |-> 190000, scale |-> 1],    \* avgAmountLast7d
     [mean |-> 110,   std |-> 40,     scale |-> 100] >> \* uniqueDevicesLast24h

\* the feature array of lines 210-221, before normalisation
featureArray(tx, t, userCount, h) ==
  << Num(tx.amount),
     Num(getHours(t)),
     Num(getDay(t)),
     Num(IF userCount = 0 THEN 1 ELSE 0),
     Num(userCount),
     Num(Len(h.tx24h)),
     avgAmount(h.tx24h),
     Num(Len(h.tx7d)),
     avgAmount(h.tx7d),
     Num(Cardinality(h.userDevices)) >>

\* (feature - stats.mean) / stats.std, in thousandths
zScore(f, stats) ==
  IF f.nan THEN NotANumber
  ELSE Num(((f.v * stats.scale - stats.mean) * 1000) \div stats.std)

normalizedFeatures(features) ==
  [i \in DOMAIN features |-> zScore(features[i], FEATURE_STATS[i])]

\* a tensor with a NaN entry gives a NaN prediction
finite(features) == \A i \in DOMAIN features : ~features[i].nan

EmptyReq ==
  [tx |-> NoTx, now |-> 0, ahead |-> {}, featuresAt |-> 0, features |-> <<>>,
   preVel |-> {}, preDev |-> {}, preGeo |-> NoGeo,
   recentTxns |-> {}, hourlyTxns |-> {}, userIds |-> {}, lastLocation |-> NoGeo,
   velocityCheck |-> NoCheck, deviceCheck |-> NoCheck, geoCheck |-> NoCheck,
   totalScore |-> 0, reasons |-> <<>>,
   isFreudulent |-> FALSE, ruleScore |-> 0,
   userCount |-> 0, modelOut |-> NaN, mlRiskScore |-> 0,
   finalRiskScore |-> 0, id |-> 0]

\* samples of u1 that earlier requests left in velocity:u1
BurstSamples(n)  == {member(5000, StartClock - 5000 * k) : k \in 1..n}
HourlySamples(n) == {member(5000, StartClock - 120000 * k) : k \in 1..n}

Init ==
  /\ workload \in Workloads
  /\ clock = StartClock
  /\ \E b \in {0, PreloadBurst}, h \in {0, PreloadHourly} :
       /\ b = 0 <=> h = 0
       /\ velocity = [u \in Users |->
                        IF u = "u1" THEN BurstSamples(b) \cup HourlySamples(h)
                                    ELSE {}]
       /\ velTTL = [u \in Users |->
                      IF u = "u1" /\ b > 0 THEN StartClock - 5000 + VelocityTtlMs
                      ELSE IF u = "u1" /\ h > 0 THEN StartClock - 120000 + VelocityTtlMs
                      ELSE NoTTL]
  /\ amountHist = [u \in Users |-> {}]
  /\ device = [d \in Devices |-> {}]
  /\ lastGeo = [u \in Users |-> NoGeo]
  /\ model = "null"
  /\ mlpc = "start"
  /\ pc = [p \in Procs |-> "idle"]
  /\ req = [p \in Procs |-> EmptyReq]
  /\ resp = [p \in Procs |-> NoResp]
  /\ txs = <<>>
  /\ txCache = {}
  /\ env = DefaultEnv
  /\ version = 0
  /\ weights = NoWeights
  /\ training = FALSE
  /\ disk = InitializedWeights
  /\ report = [r \in Reports |-> NoReport]
  /\ history = [u \in Users |-> NoHistory]

(***************************************************************************)
(* FraudDetectionService: the decisions of the rule checks                 *)
(***************************************************************************)
\* variant firing at the limit instead of above it
checkVelocity_atLimit(recentTxns, hourlyTxns) ==
  IF Cardinality(recentTxns) >= maxVelocityPerMinute
    THEN [score |-> VelocityMinuteScore, reason |-> ReasonVelMinute]
  ELSE IF Cardinality(hourlyTxns) > maxVelocityPerHour
    THEN [score |-> VelocityHourScore, reason |-> ReasonVelHour]
  ELSE [score |-> 0, reason |-> NoReason]

\* variant testing the hourly window first
checkVelocity_hourFirst(recentTxns, hourlyTxns) ==
  IF Cardinality(hourlyTxns) > maxVelocityPerHour
    THEN [score |-> VelocityHourScore, reason |-> ReasonVelHour]
  ELSE IF Cardinality(recentTxns) > maxVelocityPerMinute
    THEN [score |-> VelocityMinuteScore, reason |-> ReasonVelMinute]
  ELSE [score |-> 0, reason |-> NoReason]

\* variant with the two scores exchanged
checkVelocity_swappedScores(recentTxns, hourlyTxns) ==
  IF Cardinality(recentTxns) > maxVelocityPerMinute
    THEN [score |-> VelocityHourScore, reason |-> ReasonVelMinute]
  ELSE IF Cardinality(hourlyTxns) > maxVelocityPerHour
    THEN [score |-> VelocityMinuteScore, reason |-> ReasonVelHour]
  ELSE [score |-> 0, reason |-> NoReason]

\* checkVelocity, after its two zrangebyscore reads
checkVelocity(recentTxns, hourlyTxns) ==
  IF Cardinality(recentTxns) > maxVelocityPerMinute
    THEN [score |-> VelocityMinuteScore, reason |-> ReasonVelMinute]
  ELSE IF Cardinality(hourlyTxns) > maxVelocityPerHour
    THEN [score |-> VelocityHourScore, reason |-> ReasonVelHour]
  ELSE NoCheck

RECURSIVE SumAmounts(_)
SumAmounts(set) ==
  IF set = {} THEN 0
  ELSE LET m == CHOOSE x \in set : TRUE
       IN  m[1] + SumAmounts(set \ {m})

\* checkAmountPatterns, after its zrangebyscore read (private, no caller)
checkAmountPatterns(recentAmounts, amount) ==
  IF recentAmounts # {}
       /\ amount * Cardinality(recentAmounts) > SumAmounts(recentAmounts) * 10
       /\ amount > 100000
    THEN [score |-> AmountSpikeScore, reason |-> ReasonSpike]
  ELSE IF recentAmounts # {} /\ amount % 10000 = 0 /\ amount >= 50000
    THEN [score |-> RoundNumberScore, reason |-> ReasonRound]
  ELSE NoCheck

\* variant that forgets the membership test
checkDeviceRisk_anyUser(userIds, userId) ==
  IF userIds # {}
    THEN [score |-> DeviceScore, reason |-> ReasonDevice]
  ELSE [score |-> 0, reason |-> NoReason]

\* checkDeviceRisk, on the members read before the sadd
checkDeviceRisk(userIds, userId) ==
  IF userIds # {} /\ userId \notin userIds
    THEN [score |-> DeviceScore, reason |-> ReasonDevice]
  ELSE NoCheck

\* variant that leaves the set as it was
sadd_skipped(set, userId) == set

\* redis.sadd(key, userId) on the content of a set
sadd(set, userId) == set \cup {userId}

\* variant that fires on any change of place
checkGeoRisk_anyMove(lastLocation, latitude, longitude) ==
  IF lastLocation # NoGeo /\ lastLocation # formatGeo(latitude, longitude)
    THEN [score |-> GeoScore, reason |-> ReasonGeo]
  ELSE [score |-> 0, reason |-> NoReason]

\* checkGeoRisk, on the value read from geo:<u>
checkGeoRisk(lastLocation, latitude, longitude) ==
  IF lastLocation # NoGeo
       /\ calculateDistance(latitude, longitude,
                            parseGeo(lastLocation).lat,
                            parseGeo(lastLocation).lon) > GeoThreshold
    THEN [score |-> GeoScore, reason |-> ReasonGeo]
  ELSE NoCheck

\* variant that adds the score and keeps the reason to itself
addCheck_silent(r, check) == [r EXCEPT !.totalScore = @ + check.score]

\* detectFraud: if (check.score > 0) { totalScore += score; push(reason) }
addCheck(r, check) ==
  IF check.score > 0
    THEN [r EXCEPT !.totalScore = @ + check.score,
                   !.reasons = IF check.reason # NoReason
                                 THEN Append(@, check.reason) ELSE @]
    ELSE r

\* rule 4 of detectFraud
amountCapCheck(amount) ==
  IF amount > maxTransactionAmount
    THEN [score |-> AmountCapScore, reason |-> ReasonCap]
  ELSE NoCheck

\* rule 5 of detectFraud
nightCheck(hour) ==
  IF hour >= nightTimeStart \/ hour <= nightTimeEnd
    THEN [score |-> NightScore, reason |-> ReasonNight]
  ELSE NoCheck

\* variant without the cap
normalizedScore_uncapped(totalScore) == totalScore

\* Math.min(totalScore, 1)
normalizedScore(totalScore) == IF totalScore < 1000 THEN totalScore ELSE 1000

\* the synchronous end of detectFraud: rules 4 and 5, normalisation, result
finishRules(r, hour) ==
  LET r4 == addCheck(r, amountCapCheck(r.tx.amount))
      r5 == addCheck(r4, nightCheck(hour))
  IN  [r5 EXCEPT !.ruleScore = normalizedScore(r5.totalScore),
                 !.isFreudulent = normalizedScore(r5.totalScore) >= FraudulentThreshold]

(***************************************************************************)
(* MLService                                                               *)
(***************************************************************************)
\* amount-bucket score used when the model cannot answer
fallbackRiskScore(amount) ==
  IF amount > 1000000 THEN 900
  ELSE IF amount > 500000 THEN 700
  ELSE IF amount > 100000 THEN 500
  ELSE 200

\* variant without the isNaN guard
scoreOrFallback_unguarded(out, amount) == out

\* predictRisk: if (!this.model), catch and isNaN(score) all answer with the
\* fallback; otherwise the model's score is returned as it is
scoreOrFallback(out, amount) ==
  IF out = NaN THEN fallbackRiskScore(amount) ELSE out

(***************************************************************************)
(* /check route: fusion and decision                                       *)
(***************************************************************************)
\* variant that gives the rule score a weight of 0.8
fuse_ruleHeavy(ruleScore, mlRiskScore) == ruleScore * 8 + mlRiskScore * 2

\* variant that returns the rule score alone
fuse_ruleOnly(ruleScore, mlRiskScore) == ruleScore * 10

\* variant with the two weights exchanged
fuse_swapped(ruleScore, mlRiskScore) == ruleScore * 4 + mlRiskScore * 6

\* ruleBasedResult.riskScore * 0.6 + mlRiskScore * 0.4, in ten-thousandths
fuse(ruleScore, mlRiskScore) == ruleScore * 6 + mlRiskScore * 4

\* variant with a strict comparison
txStatus_strict(finalRiskScore) ==
  IF finalRiskScore > FlagThreshold THEN "FLAGGED" ELSE "PENDING"

\* status: finalRiskScore >= 0.7 ? FLAGGED : PENDING
txStatus(finalRiskScore) ==
  IF finalRiskScore >= FlagThreshold THEN "FLAGGED" ELSE "PENDING"

\* isHighRisk: finalRiskScore >= 0.7
isHighRisk(finalRiskScore) == finalRiskScore >= FlagThreshold

\* recommendedAction: finalRiskScore >= 0.7 ? "DENY" : "ALLOW"
recommendedAction(finalRiskScore) ==
  IF finalRiskScore >= FlagThreshold THEN "DENY" ELSE "ALLOW"

\* validateTransaction middleware: 0 stands for next()
validateTransaction(t) ==
  IF t.userId = "" \/ t.amount = 0 \/ t.deviceId = "" THEN 400
  ELSE IF t.location.present
          /\ (t.location.latitude = 0 \/ t.location.longitude = 0) THEN 400
  ELSE 0

(***************************************************************************)
(* Steps of one /check request.  Every await of the handler ends a step.   *)
(***************************************************************************)
setReq(p, r) == req' = [req EXCEPT ![p] = r]
goto(p, l)   == pc' = [pc EXCEPT ![p] = l]

\* predictRisk returned: `out` is what model.predict gave, NaN when the model
\* was not asked or threw; finalRiskScore follows, next is newTransaction.save()
withMlScore(r, out) ==
  LET score == scoreOrFallback(out, r.tx.amount)
  IN  [r EXCEPT !.modelOut = out,
                !.mlRiskScore = score,
                !.finalRiskScore = fuse(r.ruleScore, score)]

\* detectFraud returns and predictRisk starts: if (!this.model) fallback
afterDetect(p, r) ==
  LET done == finishRules(r, getHours(clock))
  IN  IF model = "null"
        THEN setReq(p, withMlScore(done, NaN)) /\ goto(p, "tx_save")
        ELSE setReq(p, [done EXCEPT !.featuresAt = clock]) /\ goto(p, "ml_scard")

\* the requests of user u whose handler was entered already
received(u) == {q \in DOMAIN pc : pc[q] # "idle" /\ req[q].tx.userId = u}

\* variant in which the store executes commands in any order
commandQueue_unordered(p) == TRUE

\* the one Redis connection executes commands in the order they were sent, and
\* a handler sends its zadd in the turn in which it is entered: the zadd of
\* every request received before p was executed before the zadd of p
commandQueue(p) == \A q \in req[p].ahead : pc[q] # "vel_zadd"

\* a request is received `delay` after the previous event: validateTransaction,
\* then detectFraud up to its first await (Date.now() is read on the way)
CheckStart(p, delay) ==
  /\ pc[p] = "idle"
  /\ clock' = clock + delay
  /\ \E t \in workload :
       IF validateTransaction(t) # 0
         THEN /\ goto(p, "done")
              /\ resp' = [resp EXCEPT ![p] = [status |-> 400]]
              /\ UNCHANGED req
         ELSE /\ goto(p, "vel_zadd")
              /\ setReq(p, [EmptyReq EXCEPT !.tx = t, !.now = clock + delay,
                                            !.ahead = received(t.userId),
                                            !.preVel = velocityAt(t.userId, clock + delay),
                                            !.preDev = device[t.deviceId],
                                            !.preGeo = lastGeo[t.userId]])
              /\ UNCHANGED resp
  /\ UNCHANGED <<workload, velocity, velTTL, amountHist, device, lastGeo,
                 model, mlpc, txs, txCache>>
  /\ UNCHANGED <<env, version, weights, training, disk, report, history>>

\* checkVelocity: redis.zadd(key, now, `${amount}:${now}`)
VelZadd(p) ==
  /\ pc[p] = "vel_zadd"
  /\ commandQueue(p)
  /\ LET u == req[p].tx.userId
     IN  /\ velocity' = [velocity EXCEPT
                           ![u] = velocityKey(u) \cup {member(req[p].tx.amount, req[p].now)}]
         /\ velTTL' = [velTTL EXCEPT ![u] = IF clock < @ THEN @ ELSE NoTTL]
  /\ goto(p, "vel_expire")
  /\ UNCHANGED <<workload, clock, amountHist, device, lastGeo, model, mlpc,
                 req, resp, txs, txCache>>
  /\ UNCHANGED <<env, version, weights, training, disk, report, history>>

\* checkVelocity: redis.expire(key, 3600)
VelExpire(p) ==
  /\ pc[p] = "vel_expire"
  /\ LET u == req[p].tx.userId
     IN  velTTL' = [velTTL EXCEPT
                     ![u] = IF velocityKey(u) = {} THEN @ ELSE clock + VelocityTtlMs]
  /\ goto(p, "vel_minute")
  /\ UNCHANGED <<workload, clock, velocity, amountHist, device, lastGeo, model, mlpc,
                 req, resp, txs, txCache>>
  /\ UNCHANGED <<env, version, weights, training, disk, report, history>>

\* checkVelocity: recentTxns = redis.zrangebyscore(key, minuteAgo, now)
VelMinute(p) ==
  /\ pc[p] = "vel_minute"
  /\ LET r == req[p]
     IN  setReq(p, [r EXCEPT !.recentTxns =
                     zrangebyscore(velocityKey(r.tx.userId), r.now - MinuteMs, r.now)])
  /\ goto(p, "vel_hour")
  /\ UNCHANGED <<workload, clock, velocity, velTTL, amountHist, device, lastGeo,
                 model, mlpc, resp, txs, txCache>>
  /\ UNCHANGED <<env, version, weights, training, disk, report, history>>

\* checkVelocity: hourlyTxns = redis.zrangebyscore(key, hourAgo, now), verdict
VelHour(p) ==
  /\ pc[p] = "vel_hour"
  /\ LET r == req[p]
         h == zrangebyscore(velocityKey(r.tx.userId), r.now - HourMs, r.now)
         c == checkVelocity(r.recentTxns, h)
     IN  setReq(p, addCheck([r EXCEPT !.hourlyTxns = h, !.velocityCheck = c], c))
  /\ goto(p, "dev_smembers")
  /\ UNCHANGED <<workload, clock, velocity, velTTL, amountHist, device, lastGeo,
                 model, mlpc, resp, txs, txCache>>
  /\ UNCHANGED <<env, version, weights, training, disk, report, history>>

\* checkDeviceRisk: userIds = redis.smembers(key)
DevSmembers(p) ==
  /\ pc[p] = "dev_smembers"
  /\ setReq(p, [req[p] EXCEPT !.userIds = device[req[p].tx.deviceId]])
  /\ goto(p, "dev_sadd")
  /\ UNCHANGED <<workload, clock, velocity, velTTL, amountHist, device, lastGeo,
                 model, mlpc, resp, txs, txCache>>
  /\ UNCHANGED <<env, version, weights, training, disk, report, history>>

\* checkDeviceRisk: redis.sadd(key, userId), verdict; then the geo rule is
\* entered only if (transaction.location)
DevSadd(p) ==
  /\ pc[p] = "dev_sadd"
  /\ LET r  == req[p]
         c  == checkDeviceRisk(r.userIds, r.tx.userId)
         r2 == addCheck([r EXCEPT !.deviceCheck = c], c)
     IN  /\ device' = [device EXCEPT ![r.tx.deviceId] = sadd(@, r.tx.userId)]
         /\ IF r.tx.location.present
              THEN setReq(p, r2) /\ goto(p, "geo_get")
              ELSE afterDetect(p, r2)
  /\ UNCHANGED <<workload, clock, velocity, velTTL, amountHist, lastGeo,
                 model, mlpc, resp, txs, txCache>>
  /\ UNCHANGED <<env, version, weights, training, disk, report, history>>

\* checkGeoRisk: lastLocation = redis.get(key); returns early when it fires
GeoGet(p) ==
  /\ pc[p] = "geo_get"
  /\ LET r     == [req[p] EXCEPT !.lastLocation = lastGeo[req[p].tx.userId]]
         check == checkGeoRisk(r.lastLocation, r.tx.location.latitude,
                               r.tx.location.longitude)
     IN  IF check.score > 0
           THEN afterDetect(p, addCheck([r EXCEPT !.geoCheck = check], check))
           ELSE setReq(p, r) /\ goto(p, "geo_set")
  /\ UNCHANGED <<workload, clock, velocity, velTTL, amountHist, device, lastGeo,
                 model, mlpc, resp, txs, txCache>>
  /\ UNCHANGED <<env, version, weights, training, disk, report, history>>

\* checkGeoRisk: redis.set(key, `${latitude}:${longitude}`)
GeoSet(p) ==
  /\ pc[p] = "geo_set"
  /\ LET r == req[p]
     IN  /\ lastGeo' = [lastGeo EXCEPT ![r.tx.userId] =
                          formatGeo(r.tx.location.latitude, r.tx.location.longitude)]
         /\ afterDetect(p, r)
  /\ UNCHANGED <<workload, clock, velocity, velTTL, amountHist, device,
                 model, mlpc, resp, txs, txCache>>
  /\ UNCHANGED <<env, version, weights, training, disk, report, history>>

\* preprocessFeatures: userCount = redis.scard(deviceKey); a throw is caught
\* by predictRisk, which answers with the fallback; featuresAt, the time that
\* preprocessFeatures read at its entry, ends with the call
MlScard(p) ==
  /\ pc[p] = "ml_scard"
  /\ \/ /\ setReq(p, [req[p] EXCEPT !.userCount =
                                        Cardinality(device[req[p].tx.deviceId])])
        /\ goto(p, "ml_predict")
     \/ /\ setReq(p, withMlScore([req[p] EXCEPT !.featuresAt = 0], NaN))
        /\ goto(p, "tx_save")
  /\ UNCHANGED <<workload, clock, velocity, velTTL, amountHist, device, lastGeo,
                 model, mlpc, resp, txs, txCache>>
  /\ UNCHANGED <<env, version, weights, training, disk, report, history>>

\* preprocessFeatures: the remaining reads and the tensor; then model.predict
\* and prediction.data(), or model.predict throws
MlPredict(p) ==
  /\ pc[p] = "ml_predict"
  /\ LET r == req[p]
         f == featureArray(r.tx, r.featuresAt, r.userCount, history[r.tx.userId])
     IN  \/ /\ model # "null"
            /\ \E out \in IF finite(normalizedFeatures(f))
                             THEN ModelOutputs \cup {NaN} ELSE {NaN} :
                  setReq(p, withMlScore([r EXCEPT !.features = f,
                                                  !.featuresAt = 0], out))
         \/ setReq(p, withMlScore([r EXCEPT !.features = f,
                                            !.featuresAt = 0], NaN))
  /\ goto(p, "tx_save")
  /\ UNCHANGED <<workload, clock, velocity, velTTL, amountHist, device, lastGeo,
                 model, mlpc, resp, txs, txCache>>
  /\ UNCHANGED <<env, version, weights, training, disk, report, history>>

\* new Transaction({...transaction, riskScore, status}).save()
TxSave(p) ==
  /\ pc[p] = "tx_save"
  /\ LET r  == req[p]
         id == Len(txs) + 1
     IN  /\ txs' = Append(txs, [id |-> id, userId |-> r.tx.userId,
                                amount |-> r.tx.amount, deviceId |-> r.tx.deviceId,
                                location |-> r.tx.location,
                                riskScore |-> r.finalRiskScore,
                                status |-> txStatus(r.finalRiskScore)])
         /\ setReq(p, [r EXCEPT !.id = id])
  /\ goto(p, "tx_cache")
  /\ UNCHANGED <<workload, clock, velocity, velTTL, amountHist, device, lastGeo,
                 model, mlpc, resp, txCache>>
  /\ UNCHANGED <<env, version, weights, training, disk, report, history>>

\* redis.setex(`tx:${id}`, 3600, ...) and res.json(...)
TxCache(p) ==
  /\ pc[p] = "tx_cache"
  /\ LET r == req[p]
     IN  /\ txCache' = txCache \cup {[id |-> r.id, riskScore |-> r.finalRiskScore,
                                      reasons |-> r.reasons,
                                      expireAt |-> clock + CacheTtlMs]}
         /\ resp' = [resp EXCEPT ![p] =
                       [status |-> 200, transactionId |-> r.id,
                        riskScore |-> r.finalRiskScore,
                        isHighRisk |-> isHighRisk(r.finalRiskScore),
                        reasons |-> r.reasons,
                        recommendedAction |-> recommendedAction(r.finalRiskScore)]]
  /\ goto(p, "done")
  /\ UNCHANGED <<workload, clock, velocity, velTTL, amountHist, device, lastGeo,
                 model, mlpc, req, txs>>
  /\ UNCHANGED <<env, version, weights, training, disk, report, history>>

\* a Redis or MongoDB call of the handler rejects: catch -> 500
ThrowingSteps == {"vel_zadd", "vel_expire", "vel_minute", "vel_hour",
                  "dev_smembers", "dev_sadd", "geo_get", "geo_set",
                  "tx_save", "tx_cache"}

CheckFail(p) ==
  /\ pc[p] \in ThrowingSteps
  /\ goto(p, "done")
  /\ resp' = [resp EXCEPT ![p] = [status |-> 500]]
  /\ setReq(p, [EmptyReq EXCEPT !.tx = req[p].tx, !.now = req[p].now])
  /\ UNCHANGED <<workload, clock, velocity, velTTL, amountHist, device, lastGeo,
                 model, mlpc, txs, txCache>>
  /\ UNCHANGED <<env, version, weights, training, disk, report, history>>

(***************************************************************************)
(* MLService constructor: initializeModel runs in the background           *)
(***************************************************************************)
\* loadExistingModel finds a saved model and loads it
MLLoadExisting ==
  /\ mlpc = "start"
  /\ disk # NoWeights
  /\ model' = "loaded"
  /\ weights' = disk
  /\ mlpc' = "ready"
  /\ UNCHANGED <<training, disk>>
  /\ UNCHANGED <<workload, clock, velocity, velTTL, amountHist, device, lastGeo,
                 pc, req, resp, txs, txCache>>
  /\ UNCHANGED <<env, version, report, history>>

\* no saved model (or loading failed): this.model = createModel(), fit starts
MLCreateModel ==
  /\ mlpc = "start"
  /\ model' = "compiled"
  /\ weights' = FreshWeights
  /\ training' = TRUE
  /\ mlpc' = "fitting"
  /\ UNCHANGED disk
  /\ UNCHANGED <<workload, clock, velocity, velTTL, amountHist, device, lastGeo,
                 pc, req, resp, txs, txCache>>
  /\ UNCHANGED <<env, version, report, history>>

\* the dummy fit resolves; saveModel starts
MLFitDone ==
  /\ mlpc = "fitting"
  /\ weights' = applyGradients(weights)
  /\ training' = FALSE
  /\ mlpc' = "saving"
  /\ UNCHANGED disk
  /\ UNCHANGED <<workload, clock, velocity, velTTL, amountHist, device, lastGeo,
                 model, pc, req, resp, txs, txCache>>
  /\ UNCHANGED <<env, version, report, history>>

\* saveModel resolves: the weights of this.model are on disk, or model.save
\* failed and the error was swallowed
MLSaveDone ==
  /\ mlpc = "saving"
  /\ disk' \in {weights, disk}
  /\ mlpc' = "ready"
  /\ UNCHANGED <<weights, training>>
  /\ UNCHANGED <<workload, clock, velocity, velTTL, amountHist, device, lastGeo,
                 model, pc, req, resp, txs, txCache>>
  /\ UNCHANGED <<env, version, report, history>>

\* createModel or the dummy fit throws: catch sets this.model = null
MLInitFail ==
  /\ mlpc \in {"start", "fitting"}
  /\ model' = "null"
  /\ weights' = NoWeights
  /\ training' = FALSE
  /\ mlpc' = "failed"
  /\ UNCHANGED disk
  /\ UNCHANGED <<workload, clock, velocity, velTTL, amountHist, device, lastGeo,
                 pc, req, resp, txs, txCache>>
  /\ UNCHANGED <<env, version, report, history>>

CheckStep(p) ==
  \/ VelZadd(p) \/ VelExpire(p) \/ VelMinute(p) \/ VelHour(p)
  \/ DevSmembers(p) \/ DevSadd(p) \/ GeoGet(p) \/ GeoSet(p)
  \/ MlScard(p) \/ MlPredict(p) \/ TxSave(p) \/ TxCache(p) \/ CheckFail(p)

MLInit == MLLoadExisting \/ MLCreateModel \/ MLFitDone \/ MLSaveDone \/ MLInitFail

\* Requests are served one after the other: a request is received only after
\* the response to the previous one was sent, at a later reading of the clock.
\* The background initialisation of the model interleaves with them.
Quiet(p) == \A q \in Procs \ {p} : pc[q] = IF q < p THEN "done" ELSE "idle"

Next ==
  \/ \E p \in Procs :
        \/ \E d \in Delays : Quiet(p) /\ CheckStart(p, d)
        \/ CheckStep(p)
  \/ MLInit

Spec == Init /\ [][Next]_vars

(***************************************************************************)
(* /report-fraud route and MLService.updateModelWithTransaction            *)
(***************************************************************************)
\* transactionId of a request body: MissingId for an absent or empty field,
\* MalformedId for a string that is no ObjectId, UnknownId for an ObjectId
\* that no document has, 1.. for the documents of the collection
MissingId   == 0
MalformedId == -1
UnknownId   == 9

Feedback(id, flag) == [transactionId |-> id, wasActuallyFraud |-> flag]
Feedbacks == {Feedback(1, "true"), Feedback(1, "false"), Feedback(1, "yes"),
              Feedback(MissingId, "true"), Feedback(MalformedId, "true"),
              Feedback(UnknownId, "false")}

\* typeof wasActuallyFraud === "boolean"
isBoolean(flag) == flag \in {"true", "false"}

\* variant that reopens a record reported as no fraud
reportedStatus_reopened(flag) == IF flag = "true" THEN "DENIED" ELSE "PENDING"

\* variant with the two statuses exchanged
reportedStatus_inverted(flag) == IF flag = "true" THEN "APPROVED" ELSE "DENIED"

\* variant without the ongoing-fit test
fitThrows_unguarded(m, ongoing) == m # "compiled"

\* this.model.fit(...) throws when the model is gone, when it was restored from
\* disk (saved without its optimizer, it is not compiled) and when another
\* fit() call is ongoing
fitThrows(m, ongoing) == m # "compiled" \/ ongoing

\* transaction.status = wasActuallyFraud ? "DENIED" : "APPROVED"
reportedStatus(flag) == IF flag = "true" THEN "DENIED" ELSE "APPROVED"

\* Transaction.findById(transactionId): 0 stands for null
findById(id) == IF id \in 1..Len(txs) THEN id ELSE 0

setReport(r, rec) == report' = [report EXCEPT ![r] = rec]
respond(r, code)  == setReport(r, [report[r] EXCEPT !.pc = "done", !.status = code])

\* the body is read and validated; findById is called
ReportStart(r) ==
  /\ report[r].pc = "idle"
  /\ \E f \in Feedbacks :
       LET rec == [NoReport EXCEPT !.transactionId = f.transactionId,
                                   !.wasActuallyFraud = f.wasActuallyFraud,
                                   !.versionBefore = version]
       IN  IF f.transactionId = MissingId \/ ~isBoolean(f.wasActuallyFraud)
             THEN setReport(r, [rec EXCEPT !.pc = "done", !.status = 400])
             ELSE setReport(r, [rec EXCEPT !.pc = "find"])
  /\ UNCHANGED <<workload, clock, velocity, velTTL, amountHist, device, lastGeo,
                 model, mlpc, pc, req, resp, txs, txCache,
                 env, version, weights, training, disk, history>>

\* findById resolves: a string that is no ObjectId is a cast error (catch ->
\* 500), null is answered with 404, otherwise status is set and save is called
ReportFind(r) ==
  /\ report[r].pc = "find"
  /\ IF report[r].transactionId = MalformedId THEN respond(r, 500)
     ELSE IF findById(report[r].transactionId) = 0 THEN respond(r, 404)
     ELSE setReport(r, [report[r] EXCEPT !.pc = "save"])
  /\ UNCHANGED <<workload, clock, velocity, velTTL, amountHist, device, lastGeo,
                 model, mlpc, pc, req, resp, txs, txCache,
                 env, version, weights, training, disk, history>>

\* variant that tests the model before the record is saved
ReportSave_modelFirst(r) ==
  /\ report[r].pc = "save"
  /\ IF model = "null"
       THEN respond(r, 500) /\ UNCHANGED txs
       ELSE /\ txs' = [txs EXCEPT ![report[r].transactionId].status =
                                     reportedStatus(report[r].wasActuallyFraud)]
            /\ setReport(r, [report[r] EXCEPT !.pc = "features"])
  /\ UNCHANGED <<workload, clock, velocity, velTTL, amountHist, device, lastGeo,
                 model, mlpc, pc, req, resp, txCache,
                 env, version, weights, training, disk, history>>

\* transaction.save() resolves; updateModelWithTransaction is entered:
\* if (!this.model) throw, else preprocessFeatures starts
ReportSave(r) ==
  /\ report[r].pc = "save"
  /\ txs' = [txs EXCEPT ![report[r].transactionId].status =
                          reportedStatus(report[r].wasActuallyFraud)]
  /\ IF model = "null" THEN respond(r, 500)
     ELSE setReport(r, [report[r] EXCEPT !.pc = "features"])
  /\ UNCHANGED <<workload, clock, velocity, velTTL, amountHist, device, lastGeo,
                 model, mlpc, pc, req, resp, txCache,
                 env, version, weights, training, disk, history>>

\* preprocessFeatures resolves and this.model.fit is called
ReportFeatures(r) ==
  /\ report[r].pc = "features"
  /\ IF fitThrows(model, training)
       THEN respond(r, 500) /\ UNCHANGED training
       ELSE setReport(r, [report[r] EXCEPT !.pc = "fit"]) /\ training' = TRUE
  /\ UNCHANGED <<workload, clock, velocity, velTTL, amountHist, device, lastGeo,
                 model, mlpc, pc, req, resp, txs, txCache,
                 env, version, weights, disk, history>>

\* fit resolves: one optimizer step was applied; redis.incr is called
ReportFitDone(r) ==
  /\ report[r].pc = "fit"
  /\ weights' = applyGradients(weights)
  /\ training' = FALSE
  /\ setReport(r, [report[r] EXCEPT !.pc = "incr", !.fitted = TRUE])
  /\ UNCHANGED <<workload, clock, velocity, velTTL, amountHist, device, lastGeo,
                 model, mlpc, pc, req, resp, txs, txCache,
                 env, version, disk, history>>

\* redis.incr(MODEL_VERSION_KEY) resolves; res.json
ReportIncr(r) ==
  /\ report[r].pc = "incr"
  /\ version' = version + 1
  /\ respond(r, 200)
  /\ UNCHANGED <<workload, clock, velocity, velTTL, amountHist, device, lastGeo,
                 model, mlpc, pc, req, resp, txs, txCache,
                 env, weights, training, disk, history>>

\* a MongoDB or Redis call of the handler rejects: catch -> 500
ReportFail(r) ==
  /\ report[r].pc \in {"find", "save", "features", "incr"}
  /\ respond(r, 500)
  /\ UNCHANGED <<workload, clock, velocity, velTTL, amountHist, device, lastGeo,
                 model, mlpc, pc, req, resp, txs, txCache,
                 env, version, weights, training, disk, history>>

ReportStep(r) ==
  \/ ReportStart(r) \/ ReportFind(r) \/ ReportSave(r) \/ ReportFeatures(r)
  \/ ReportFitDone(r) \/ ReportIncr(r) \/ ReportFail(r)

\* a document that an earlier /check of a small amount left behind
StoredTx == [id |-> 1, userId |-> "u1", amount |-> 5000, deviceId |-> "d1",
             location |-> NoLoc, riskScore |-> fuse(0, fallbackRiskScore(5000)),
             status |-> txStatus(fuse(0, fallbackRiskScore(5000)))]

FeedbackLoad == {Tx("u1", "d1", 5000, Lagos)}

\* the state after construction: with a model file on disk the load is
\* pending; without one createModel has run and the dummy fit is ongoing
\* one /check request runs beside the reports
FeedbackProcs == {1}

FeedbackInit ==
  /\ workload = FeedbackLoad
  /\ clock = StartClock
  /\ velocity = [u \in Users |-> {}]
  /\ velTTL = [u \in Users |-> NoTTL]
  /\ amountHist = [u \in Users |-> {}]
  /\ device = [d \in Devices |-> {}]
  /\ lastGeo = [u \in Users |-> NoGeo]
  /\ disk \in {NoWeights, InitializedWeights}
  /\ model = "null" /\ mlpc = "start"
  /\ weights = NoWeights /\ training = FALSE
  /\ pc = [p \in FeedbackProcs |-> "idle"]
  /\ req = [p \in FeedbackProcs |-> EmptyReq]
  /\ resp = [p \in FeedbackProcs |-> NoResp]
  /\ txs = <<StoredTx>>
  /\ txCache = {}
  /\ env = DefaultEnv
  /\ version = 0
  /\ report = [r \in Reports |-> NoReport]
  /\ history = [u \in Users |-> NoHistory]

\* feedback requests overlap with each other, with a /check request and with
\* the initialisation of the model
FeedbackNext ==
  \/ \E r \in Reports : ReportStep(r)
  \/ \E p \in FeedbackProcs :
        \/ \E d \in Delays : CheckStart(p, d)
        \/ CheckStep(p)
  \/ MLInit

FeedbackSpec == FeedbackInit /\ [][FeedbackNext]_vars

(***************************************************************************)
(* Properties                                                              *)
(***************************************************************************)
\* the request of slot p was answered with 200
Served(p) == pc[p] = "done" /\ resp[p].status = 200

\* the Transaction document a 200 response names
Persisted(p) == txs[resp[p].transactionId]

\* C1: every /check request that completes successfully has a riskScore
\* between 0 and 1 (0..10000 ten-thousandths), in the JSON response and in the
\* persisted Transaction, the model's score or the fallback being within [0, 1].
C1_RiskScoreInUnitInterval ==
  /\ \A p \in Procs :
        Served(p) => /\ 0 <= resp[p].riskScore /\ resp[p].riskScore <= 10000
                     /\ Persisted(p).riskScore = resp[p].riskScore
  /\ \A i \in 1..Len(txs) : 0 <= txs[i].riskScore /\ txs[i].riskScore <= 10000

\* the rules added up to more than 1 and the answer is exactly 1
C1_Witness ==
  \E p \in Procs : /\ Served(p)
                   /\ req[p].totalScore > 1000
                   /\ resp[p].riskScore = 10000

AfterDetectSteps == {"ml_scard", "ml_predict", "tx_save", "tx_cache"}
Scored(p)        == pc[p] \in AfterDetectSteps \/ Served(p)
AfterDevice(p)   == pc[p] \in {"geo_get", "geo_set"} \/ Scored(p)
AfterVelocity(p) == pc[p] \in {"dev_smembers", "dev_sadd"} \/ AfterDevice(p)
AfterPredict(p)  == pc[p] \in {"tx_save", "tx_cache"} \/ Served(p)

Reasons(p) == {req[p].reasons[i] : i \in 1..Len(req[p].reasons)}

EarlierInMinute(p) ==
  {m \in req[p].preVel : req[p].now - 60000 <= m[2] /\ m[2] <= req[p].now}

\* C4: the velocity check writes the request's own sample before it reads the
\* window; when requests are served one after the other, R1 fires (score 0.8,
\* the per-minute reason, verdict fraudulent) iff at least 5 earlier samples of
\* the user lie in the preceding 60 s.
C4_SixthInAMinuteFires ==
  \A p \in Procs :
    /\ AfterVelocity(p) =>
          /\ <<req[p].tx.amount, req[p].now>> \in req[p].recentTxns
          /\ Cardinality(req[p].recentTxns) = Cardinality(EarlierInMinute(p)) + 1
          /\ req[p].velocityCheck.score = 800 <=> Cardinality(EarlierInMinute(p)) >= 5
          /\ ReasonVelMinute \in Reasons(p) <=> Cardinality(EarlierInMinute(p)) >= 5
    /\ Scored(p) /\ Cardinality(EarlierInMinute(p)) >= 5 =>
          req[p].ruleScore >= 800 /\ req[p].isFreudulent

\* the sixth transaction in a minute: exactly 5 earlier samples, R1 fired
C4_Witness ==
  \E p \in Procs : /\ Served(p)
                   /\ Cardinality(EarlierInMinute(p)) = 5
                   /\ ReasonVelMinute \in Reasons(p)
                   /\ req[p].isFreudulent

\* C5 as stated: when the per-minute count exceeds 5 and the per-hour count
\* exceeds 20, both velocity reasons are appended and 0.8 and 0.6 are both added.
C5_BothVelocityRulesFire ==
  \A p \in Procs :
    AfterVelocity(p) /\ Cardinality(req[p].recentTxns) > 5
                     /\ Cardinality(req[p].hourlyTxns) > 20 =>
      /\ ReasonVelMinute \in Reasons(p)
      /\ ReasonVelHour \in Reasons(p)
      /\ req[p].totalScore >= 1400

\* C5 amended: when the per-minute count exceeds 5 only R1 fires (per-minute
\* reason, 0.8), whatever the per-hour count; R2 (per-hour reason, 0.6) fires
\* exactly when the per-minute count is at most 5 and the per-hour count exceeds
\* 20; the velocity check never contributes both.
C5_MinuteRuleMasksHourRule ==
  \A p \in Procs :
    AfterVelocity(p) =>
      LET minute == Cardinality(req[p].recentTxns)
          hour   == Cardinality(req[p].hourlyTxns)
      IN  /\ minute > 5 => /\ req[p].velocityCheck.score = 800
                           /\ ReasonVelMinute \in Reasons(p)
                           /\ ReasonVelHour \notin Reasons(p)
          /\ minute <= 5 /\ hour > 20 => /\ req[p].velocityCheck.score = 600
                                         /\ ReasonVelHour \in Reasons(p)
                                         /\ ReasonVelMinute \notin Reasons(p)
          /\ minute <= 5 /\ hour <= 20 => /\ req[p].velocityCheck.score = 0
                                          /\ ReasonVelHour \notin Reasons(p)
                                          /\ ReasonVelMinute \notin Reasons(p)

\* both counts exceed their limits and only the per-minute rule fired
C5_Witness ==
  \E p \in Procs : /\ Served(p)
                   /\ Cardinality(req[p].recentTxns) > 5
                   /\ Cardinality(req[p].hourlyTxns) > 20
                   /\ ReasonVelMinute \in Reasons(p)
                   /\ ReasonVelHour \notin Reasons(p)

\* C6: detectFraud evaluates the amount rules: a round amount (multiple of
\* 10000, at least 50000) gets 0.3 and "Round number transaction detected"; an
\* amount above 10 x the mean of a non-empty history and above 100000 gets 0.7
\* and "Transaction amount significantly higher than usual pattern"; both can
\* fire together.
C6_AmountRulesEvaluated ==
  \A p \in Procs :
    Scored(p) =>
      /\ req[p].tx.amount % 10000 = 0 /\ req[p].tx.amount >= 50000 =>
            ReasonRound \in Reasons(p)
      /\ LET hist == amountHist[req[p].tx.userId]
         IN  hist # {} /\ req[p].tx.amount > 100000
                      /\ req[p].tx.amount * Cardinality(hist) > 10 * SumAmounts(hist) =>
               ReasonSpike \in Reasons(p)

\* C7, state part: R5 fires (0.7, its reason) iff device[d] was non-empty and did
\* not contain u before the request; after the request u is in device[d]
C7_DecidedBeforeInsertion ==
  \A p \in Procs :
    AfterDevice(p) =>
      LET u        == req[p].tx.userId
          stranger == req[p].preDev # {} /\ u \notin req[p].preDev
      IN  /\ req[p].userIds = req[p].preDev
          /\ req[p].deviceCheck.score = 700 <=> stranger
          /\ req[p].deviceCheck.score = 0 <=> ~stranger
          /\ ReasonDevice \in Reasons(p) <=> stranger
          /\ u \in device[req[p].tx.deviceId]

\* C7, step part: no step removes a member from any device[d]
C7_NoMemberRemoved == \A d \in Devices : device[d] \subseteq device'[d]

\* C7: R5 is decided on device[d] as it was before the request's own insertion:
\* with requests served one after the other, a request (u, d) gets 0.7 and
\* "Device associated with multiple users" iff device[d] was non-empty and did
\* not contain u; after the request u is in device[d]; members are never removed.
C7_DeviceMembership == []C7_DecidedBeforeInsertion /\ [][C7_NoMemberRemoved]_vars

\* a second user on a device: R5 fired and the device now holds both users
C7_Witness ==
  \E p \in Procs : /\ Served(p)
                   /\ req[p].preDev # {}
                   /\ req[p].tx.userId \notin req[p].preDev
                   /\ ReasonDevice \in Reasons(p)
                   /\ device[req[p].tx.deviceId] = req[p].preDev \cup {req[p].tx.userId}

\* C8: after detectFraud completes for a transaction of user u that carries a
\* location, lastGeo[u] equals "lat:lon" of that transaction, whether or not
\* the geo rule fired.
C8_LastGeoOverwritten ==
  \A p \in Procs :
    pc[p] \in AfterDetectSteps /\ req[p].tx.location.present =>
      lastGeo[req[p].tx.userId] = <<req[p].tx.location.latitude,
                                    req[p].tx.location.longitude>>

\* the haversine distance from the request's place to the place lastGeo[u] held
\* before the request, in units of 100 m
DistanceFromLast(p) ==
  calculateDistance(req[p].tx.location.latitude, req[p].tx.location.longitude,
                    req[p].preGeo[1], req[p].preGeo[2])

\* C9: R6 contributes 0.6 and "Unusual geographical location" iff the
\* transaction carries a location, lastGeo[u] is present and the distance between
\* the two points exceeds 100 km; without a location the geo rule adds nothing
\* and neither reads nor writes lastGeo[u].
C9_GeoRule ==
  \A p \in Procs :
    LET jump == /\ req[p].tx.location.present
                /\ req[p].preGeo # NoGeo
                /\ DistanceFromLast(p) > 1000
    IN  /\ Scored(p) => /\ req[p].geoCheck.score = 600 <=> jump
                        /\ req[p].geoCheck.score = 0 <=> ~jump
                        /\ ReasonGeo \in Reasons(p) <=> jump
        /\ pc[p] \in {"geo_get", "geo_set"} => req[p].tx.location.present
        /\ pc[p] \in AfterDetectSteps /\ ~req[p].tx.location.present =>
              /\ req[p].lastLocation = NoGeo
              /\ lastGeo[req[p].tx.userId] = req[p].preGeo

\* a jump of more than 100 km: R6 fired
C9_Witness ==
  \E p \in Procs : /\ Served(p)
                   /\ req[p].tx.location.present
                   /\ req[p].preGeo # NoGeo
                   /\ DistanceFromLast(p) > 1000
                   /\ ReasonGeo \in Reasons(p)

\* the amount-bucket score, in thousandths
AmountBucket(amount) ==
  IF amount > 1000000 THEN 900
  ELSE IF amount > 500000 THEN 700
  ELSE IF amount > 100000 THEN 500
  ELSE 200

\* C10: predictRisk never fails and returns a number in [0, 1]; when the model is
\* not loaded, when feature extraction or prediction throws, or when the output
\* is not a number, it returns exactly the amount-bucket fallback (0.9 above
\* 1000000, 0.7 above 500000, 0.5 above 100000, otherwise 0.2).
C10_PredictRiskTotal ==
  \A p \in Procs :
    /\ AfterPredict(p) =>
          /\ 0 <= req[p].mlRiskScore /\ req[p].mlRiskScore <= 1000
          /\ req[p].modelOut = NaN => req[p].mlRiskScore = AmountBucket(req[p].tx.amount)
          /\ req[p].modelOut # NaN => req[p].mlRiskScore = req[p].modelOut
    /\ pc[p] \in {"ml_scard", "ml_predict"} => resp[p] = NoResp

\* a model is in place, it gave no number, and the 0.7 bucket was returned
C10_Witness ==
  \E p \in Procs : /\ Served(p)
                   /\ model # "null"
                   /\ req[p].userCount > 0
                   /\ req[p].modelOut = NaN
                   /\ req[p].tx.amount = 600000
                   /\ req[p].mlRiskScore = 700

(***************************************************************************)
(* Deployments with other settings in process.env                          *)
(***************************************************************************)
ConfigLoad == {Tx("u1", "d1", 5000, NoLoc), Tx("u1", "d1", 2000000, Lagos)}

ConfigInit ==
  /\ workload = ConfigLoad
  /\ clock = StartClock
  /\ velocity = [u \in Users |-> {}]
  /\ velTTL = [u \in Users |-> NoTTL]
  /\ amountHist = [u \in Users |-> {}]
  /\ device = [d \in Devices |-> {}]
  /\ lastGeo = [u \in Users |-> NoGeo]
  /\ model = "null"
  /\ mlpc = "start"
  /\ pc = [p \in Procs |-> "idle"]
  /\ req = [p \in Procs |-> EmptyReq]
  /\ resp = [p \in Procs |-> NoResp]
  /\ txs = <<>>
  /\ txCache = {}
  /\ env \in Envs
  /\ version = 0
  /\ weights = NoWeights
  /\ training = FALSE
  /\ disk = InitializedWeights
  /\ report = [r \in Reports |-> NoReport]
  /\ history = [u \in Users |-> NoHistory]

ConfigSpec == ConfigInit /\ [][Next]_vars

\* C11: when enableMLModel is false a /check request bypasses the learned
\* scorer and uses modelScore = 0, so a transaction for which no rule fires
\* gets finalScore = 0.
C11_DisabledModelScoresZero ==
  \A p \in Procs :
    Served(p) /\ ~enableMLModel =>
      /\ req[p].mlRiskScore = 0
      /\ req[p].ruleScore = 0 => resp[p].riskScore = 0

\* C12 as stated: the final score is clamp(w_r x ruleScore + w_m x modelScore,
\* 0, 1) with the configured ruleWeight and modelWeight (tenths); with
\* ruleWeight = 1 and modelWeight = 0 it equals the rule score.
C12_ConfiguredWeights ==
  \A p \in Procs :
    Served(p) =>
      LET sum == env.RULE_WEIGHT * req[p].ruleScore
                   + env.MODEL_WEIGHT * req[p].mlRiskScore
      IN  resp[p].riskScore = IF sum < 0 THEN 0 ELSE IF sum > 10000 THEN 10000 ELSE sum

\* C12 amended: the final score is 0.6 x ruleScore + 0.4 x modelScore with
\* these two fixed weights, whatever weights the deployment configures, and
\* without a clamp (the sum is within [0, 1] because both scores are).
C12_FixedWeights ==
  \A p \in Procs :
    Served(p) =>
      /\ resp[p].riskScore = 6 * req[p].ruleScore + 4 * req[p].mlRiskScore
      /\ Persisted(p).riskScore = resp[p].riskScore

\* ruleWeight = 1 and modelWeight = 0 are configured, a rule fired, and the
\* final score is not the rule score
C12_Witness ==
  \E p \in Procs : /\ Served(p)
                   /\ env.RULE_WEIGHT = 10 /\ env.MODEL_WEIGHT = 0
                   /\ req[p].ruleScore > 0
                   /\ resp[p].riskScore # 10 * req[p].ruleScore

\* C13: the configured fraudThreshold t is the cutoff of the decision:
\* isHighRisk, recommendedAction = DENY and the initial status FLAGGED hold iff
\* finalScore >= t.
C13_ConfiguredThreshold ==
  \A p \in Procs :
    Served(p) =>
      LET high == resp[p].riskScore >= 10 * fraudThreshold
      IN  /\ resp[p].isHighRisk <=> high
          /\ resp[p].recommendedAction = "DENY" <=> high
          /\ Persisted(p).status = "FLAGGED" <=> high

\* /report-fraud requests that were answered with 200, whose fit resolved
Succeeded == {r \in Reports : report[r].pc = "done" /\ report[r].status = 200}
Fitted    == {r \in Reports : report[r].fitted}

\* C14, state part: a request answered with 200 has applied its update, the
\* version is above the one it found, and the record carries its status unless
\* another report on the same record saved too
C14_Completed ==
  \A r \in Succeeded :
    /\ report[r].fitted
    /\ version > report[r].versionBefore
    /\ \/ txs[report[r].transactionId].status =
            (IF report[r].wasActuallyFraud = "true" THEN "DENIED" ELSE "APPROVED")
       \/ \E o \in Reports \ {r} :
            /\ report[o].transactionId = report[r].transactionId
            /\ report[o].pc \notin {"idle", "find", "save"}

\* C14, step part: the save sets DENIED or APPROVED, the fit applies exactly
\* one step to every layer, the final step adds exactly one to the version
C14_Steps ==
  \A r \in Reports :
    /\ report[r].pc = "save" /\ report'[r].pc = "features" =>
          txs'[report[r].transactionId].status =
            (IF report[r].wasActuallyFraud = "true" THEN "DENIED" ELSE "APPROVED")
    /\ report[r].pc = "fit" /\ report'[r].pc = "incr" =>
          \A l \in DOMAIN weights : weights'[l] = weights[l] + 1
    /\ report[r].pc = "incr" /\ report'[r].status = 200 => version' = version + 1

\* C14: a report-fraud request for an existing transaction that completes
\* successfully sets the status to DENIED when wasActuallyFraud is true and to
\* APPROVED when it is false, applies one online update, and leaves
\* model.version strictly greater than before the request.
C14_ReportFraudEffects == []C14_Completed /\ [][C14_Steps]_vars

\* a confirmed fraud: answered 200, record DENIED, one step more, version up
C14_Witness ==
  \E r \in Succeeded :
    /\ report[r].wasActuallyFraud = "true"
    /\ txs[report[r].transactionId].status = "DENIED"
    /\ version = report[r].versionBefore + 1
    /\ weights = applyGradients(InitializedWeights)

\* C15: a report-fraud request whose transactionId matches no stored record is
\* answered with 404 and changes no record, no weights and no version.
C15_UnknownIdNotFound ==
  [][\A r \in Reports :
       ReportFind(r) /\ report[r].transactionId \notin 1..Len(txs) =>
         /\ report'[r].status = 404
         /\ UNCHANGED <<txs, weights, version>>]_vars

\* C16: each successful online update is followed by a save of the updated
\* weights before model.version is incremented, so the weights on disk reflect
\* all counted updates.
C16_PersistedReflectsUpdates ==
  version > 0 =>
    /\ disk # NoWeights
    /\ \A l \in DOMAIN disk : disk[l] >= InitializedWeights[l] + version

\* gradient updates in progress on the shared model
FitsOngoing ==
  Cardinality({r \in Reports : report[r].pc = "fit"})
    + (IF mlpc = "fitting" THEN 1 ELSE 0)

\* C17: in every interleaving of report-fraud requests and the start-up dummy
\* fit at most one gradient update is in progress on the model, and no update
\* is lost: the weights reflect one step for every update whose fit resolved,
\* applied one after the other, and model.version has advanced by exactly the
\* number of requests that completed.
C17_SingleWriter ==
  /\ FitsOngoing <= 1
  /\ training <=> FitsOngoing = 1
  /\ model = "compiled" /\ mlpc # "fitting" =>
        \A l \in DOMAIN weights :
          weights[l] = InitializedWeights[l] + Cardinality(Fitted)
  /\ version = Cardinality(Succeeded)
  /\ Succeeded \subseteq Fitted
  /\ \A r \in Fitted \ Succeeded :
        report[r].pc = "incr" \/ report[r].status = 500

\* two updates completed one after the other: two steps, version 2
C17_Witness ==
  /\ Cardinality(Succeeded) = 2
  /\ version = 2
  /\ weights = applyGradients(applyGradients(InitializedWeights))

C20_GeoFailureTolerated ==
  [][\A p \in DOMAIN pc :
       pc[p] \in {"geo_get", "geo_set"} =>
         ~(pc'[p] = "done" /\ resp'[p].status = 500)]_vars

(***************************************************************************)
(* Concurrent /check requests of one user                                  *)
(***************************************************************************)
RaceProcs  == {1, 2, 3}
RaceDelays == {0, 1000}
RaceLoad   == {Tx("u1", "d1", 5000, NoLoc)}

\* velocity:u1 holds a burst of earlier samples; the model failed to start
RaceInit ==
  /\ workload = RaceLoad
  /\ clock = StartClock
  /\ velocity = [u \in Users |-> IF u = "u1" THEN BurstSamples(PreloadBurst) ELSE {}]
  /\ velTTL = [u \in Users |->
                 IF u = "u1" THEN StartClock - 5000 + VelocityTtlMs ELSE NoTTL]
  /\ amountHist = [u \in Users |-> {}]
  /\ device = [d \in Devices |-> {}]
  /\ lastGeo = [u \in Users |-> NoGeo]
  /\ model = "null"
  /\ mlpc = "failed"
  /\ pc = [p \in RaceProcs |-> "idle"]
  /\ req = [p \in RaceProcs |-> EmptyReq]
  /\ resp = [p \in RaceProcs |-> NoResp]
  /\ txs = <<>>
  /\ txCache = {}
  /\ env = DefaultEnv
  /\ version = 0
  /\ weights = NoWeights
  /\ training = FALSE
  /\ disk = NoWeights
  /\ report = [r \in Reports |-> NoReport]
  /\ history = [u \in Users |-> NoHistory]

\* the handlers interleave at every await
RaceNext ==
  \E p \in RaceProcs :
    \/ \E delay \in RaceDelays : CheckStart(p, delay)
    \/ VelZadd(p) \/ VelExpire(p) \/ VelMinute(p) \/ VelHour(p)
    \/ DevSmembers(p) \/ DevSadd(p)
    \/ TxSave(p) \/ TxCache(p)

RaceSpec == RaceInit /\ [][RaceNext]_vars

\* what checkVelocity of request p would count between lo and its own time
\* had every request received before it run to completion first
SerialCount(p, lo) ==
  Cardinality(zrangebyscore(
    req[p].preVel
      \cup {member(req[q].tx.amount, req[q].now) : q \in req[p].ahead}
      \cup {member(req[p].tx.amount, req[p].now)},
    lo, req[p].now))

\* C19: for concurrent /check requests of one user, in every interleaving of
\* their KV operations the one-minute and the one-hour count of a request are
\* at most one sample below the count it would have had if every request
\* received before it had completed first.
C19_VelocityRaceBound ==
  \A p \in DOMAIN pc :
    /\ pc[p] \notin {"idle", "vel_zadd", "vel_expire", "vel_minute"} =>
          Cardinality(req[p].recentTxns) >= SerialCount(p, req[p].now - MinuteMs) - 1
    /\ AfterVelocity(p) =>
          Cardinality(req[p].hourlyTxns) >= SerialCount(p, req[p].now - HourMs) - 1

\* the third of three overlapping requests counted while the two received
\* before it were still in progress, and its count made the minute rule fire
C19_Witness ==
  \E p \in DOMAIN pc :
    /\ AfterVelocity(p)
    /\ Cardinality(req[p].ahead) = 2
    /\ \A q \in req[p].ahead : pc[q] \notin {"idle", "done"}
    /\ Cardinality(req[p].recentTxns) = PreloadBurst + 3
    /\ req[p].velocityCheck.reason = ReasonVelMinute

(***************************************************************************)
(* Feature extraction over history lists that other writers filled         *)
(***************************************************************************)
MaxHistory == 2

\* the lists of at most n entries
Histories(n) == UNION {[1..k -> Entries] : k \in 0..n}

FeatureLoad == {Tx("u1", "d1", 5000, NoLoc), Tx("u1", "d1", 2000000, Lagos)}

\* a model was restored from disk; tx:u1:24h, tx:u1:7d and
\* user_devices:u1:24h hold what is found in the store
FeatureInit ==
  /\ workload = FeatureLoad
  /\ clock = StartClock
  /\ velocity = [u \in Users |-> {}]
  /\ velTTL = [u \in Users |-> NoTTL]
  /\ amountHist = [u \in Users |-> {}]
  /\ device = [d \in Devices |-> {}]
  /\ lastGeo = [u \in Users |-> NoGeo]
  /\ model = "loaded"
  /\ mlpc = "ready"
  /\ pc = [p \in FeedbackProcs |-> "idle"]
  /\ req = [p \in FeedbackProcs |-> EmptyReq]
  /\ resp = [p \in FeedbackProcs |-> NoResp]
  /\ txs = <<>>
  /\ txCache = {}
  /\ env = DefaultEnv
  /\ version = 0
  /\ weights = InitializedWeights
  /\ training = FALSE
  /\ disk = InitializedWeights
  /\ report = [r \in Reports |-> NoReport]
  /\ \E h24 \in Histories(MaxHistory), h7 \in {<<>>, <<EntryWithAmount>>},
        ud \in {{}, {"d1"}} :
       history = [u \in Users |->
                    IF u = "u1" THEN [tx24h |-> h24, tx7d |-> h7, userDevices |-> ud]
                    ELSE NoHistory]

FeatureNext ==
  \E p \in FeedbackProcs :
    \/ \E d \in Delays : CheckStart(p, d)
    \/ CheckStep(p)

FeatureSpec == FeatureInit /\ [][FeatureNext]_vars

\* C21: the feature vector built for a transaction has exactly 10 entries and
\* every entry is finite, whatever the history lists hold.
C21_FeaturesFinite ==
  \A p \in DOMAIN pc :
    req[p].features # <<>> =>
      /\ Len(normalizedFeatures(req[p].features)) = 10
      /\ finite(normalizedFeatures(req[p].features))

(***************************************************************************)
(* Requests with an invalid amount                                         *)
(***************************************************************************)
InvalidLoad == {Tx("u1", "d1", -1000, NoLoc), Tx("u1", "d1", -1000, Lagos),
                Tx("u1", "d1", 0, NoLoc)}

InvalidInit ==
  /\ workload = InvalidLoad
  /\ clock = StartClock
  /\ velocity = [u \in Users |-> {}]
  /\ velTTL = [u \in Users |-> NoTTL]
  /\ amountHist = [u \in Users |-> {}]
  /\ device = [d \in Devices |-> {}]
  /\ lastGeo = [u \in Users |-> NoGeo]
  /\ model = "null"
  /\ mlpc = "start"
  /\ pc = [p \in Procs |-> "idle"]
  /\ req = [p \in Procs |-> EmptyReq]
  /\ resp = [p \in Procs |-> NoResp]
  /\ txs = <<>>
  /\ txCache = {}
  /\ env = DefaultEnv
  /\ version = 0
  /\ weights = NoWeights
  /\ training = FALSE
  /\ disk = InitializedWeights
  /\ report = [r \in Reports |-> NoReport]
  /\ history = [u \in Users |-> NoHistory]

InvalidSpec == InvalidInit /\ [][Next]_vars

\* C22: a /check request with a negative amount is answered with 400 before
\* any rule or model runs: no such request enters detectFraud, leaves a
\* sample or a record, or is answered with another status.
C22_NegativeAmountRejected ==
  /\ \A p \in DOMAIN pc : req[p].tx.amount >= 0
  /\ \A u \in Users : \A m \in velocity[u] : m[1] >= 0
  /\ \A i \in DOMAIN txs : txs[i].amount >= 0
  /\ \A p \in DOMAIN pc : pc[p] = "done" => resp[p].status = 400

(***************************************************************************)
(* Two users on one device, small and large amounts                        *)
(***************************************************************************)
ScoreLoad == Mixed \cup {Tx(u, "d1", 5000, NoLoc) : u \in Users}

ScoreInit ==
  /\ workload = ScoreLoad
  /\ clock = StartClock
  /\ velocity = [u \in Users |-> {}]
  /\ velTTL = [u \in Users |-> NoTTL]
  /\ amountHist = [u \in Users |-> {}]
  /\ device = [d \in Devices |-> {}]
  /\ lastGeo = [u \in Users |-> NoGeo]
  /\ model = "null"
  /\ mlpc = "start"
  /\ pc = [p \in Procs |-> "idle"]
  /\ req = [p \in Procs |-> EmptyReq]
  /\ resp = [p \in Procs |-> NoResp]
  /\ txs = <<>>
  /\ txCache = {}
  /\ env = DefaultEnv
  /\ version = 0
  /\ weights = NoWeights
  /\ training = FALSE
  /\ disk = InitializedWeights
  /\ report = [r \in Reports |-> NoReport]
  /\ history = [u \in Users |-> NoHistory]

ScoreSpec == ScoreInit /\ [][Next]_vars

\* the fixed contribution of the rule that gives reason `reason`
Contribution(reason) ==
  CASE reason = ReasonVelMinute -> VelocityMinuteScore
    [] reason = ReasonVelHour   -> VelocityHourScore
    [] reason = ReasonSpike     -> AmountSpikeScore
    [] reason = ReasonRound     -> RoundNumberScore
    [] reason = ReasonDevice    -> DeviceScore
    [] reason = ReasonGeo       -> GeoScore
    [] reason = ReasonCap       -> AmountCapScore
    [] reason = ReasonNight     -> NightScore

FixedReasons == {ReasonVelMinute, ReasonVelHour, ReasonSpike, ReasonRound,
                 ReasonDevice, ReasonGeo, ReasonCap, ReasonNight}

RECURSIVE SumContributions(_)
SumContributions(reasons) ==
  IF reasons = <<>> THEN 0
  ELSE Contribution(Head(reasons)) + SumContributions(Tail(reasons))

\* C23: for every detectFraud result the rule score is min(1, sum of the
\* fixed contributions of exactly the rules whose reason is in reasons), every
\* reason is one of the fixed set and appears at most once.
C23_ScoreMatchesReasons ==
  \A p \in DOMAIN pc :
    Scored(p) =>
      /\ Reasons(p) \subseteq FixedReasons
      /\ Cardinality(Reasons(p)) = Len(req[p].reasons)
      /\ req[p].ruleScore =
            (IF SumContributions(req[p].reasons) < 1000
               THEN SumContributions(req[p].reasons) ELSE 1000)

\* a result with three reasons whose contributions exceed 1 and are capped
C23_Witness ==
  \E p \in DOMAIN pc :
    /\ Served(p)
    /\ Len(req[p].reasons) >= 3
    /\ SumContributions(req[p].reasons) > 1000
    /\ req[p].ruleScore = 1000

(***************************************************************************)
(* A user with a burst and a busy hour behind them                         *)
(***************************************************************************)
BurstLoad == {Tx("u1", "d1", 5000, NoLoc), Tx("u2", "d1", 2000000, Lagos)}

BurstInit ==
  /\ workload = BurstLoad
  /\ clock = StartClock
  /\ velocity = [u \in Users |->
                   IF u = "u1" THEN BurstSamples(PreloadBurst)
                                      \cup HourlySamples(PreloadHourly)
                   ELSE {}]
  /\ velTTL = [u \in Users |->
                 IF u = "u1" THEN StartClock - 5000 + VelocityTtlMs ELSE NoTTL]
  /\ amountHist = [u \in Users |-> {}]
  /\ device = [d \in Devices |-> {}]
  /\ lastGeo = [u \in Users |-> NoGeo]
  /\ model = "null"
  /\ mlpc = "start"
  /\ pc = [p \in Procs |-> "idle"]
  /\ req = [p \in Procs |-> EmptyReq]
  /\ resp = [p \in Procs |-> NoResp]
  /\ txs = <<>>
  /\ txCache = {}
  /\ env = DefaultEnv
  /\ version = 0
  /\ weights = NoWeights
  /\ training = FALSE
  /\ disk = InitializedWeights
  /\ report = [r \in Reports |-> NoReport]
  /\ history = [u \in Users |-> NoHistory]

BurstSpec == BurstInit /\ [][Next]_vars

RuleNames == {"R1", "R2", "R5", "R6", "R7", "R8"}

\* the final score of request p computed again from what the request read,
\* with the trigger of rule `off` made impossible
ScoreWithout(p, off) ==
  LET r     == req[p]
      vel   == checkVelocity(IF off = "R1" THEN {} ELSE r.recentTxns,
                             IF off = "R2" THEN {} ELSE r.hourlyTxns)
      dev   == IF off = "R5" THEN NoCheck
               ELSE checkDeviceRisk(r.userIds, r.tx.userId)
      geo   == IF off = "R6" THEN NoCheck ELSE r.geoCheck
      cap   == IF off = "R7" THEN NoCheck ELSE amountCapCheck(r.tx.amount)
      night == IF off = "R8" THEN NoCheck ELSE nightCheck(getHours(r.now))
  IN  fuse(normalizedScore(vel.score + dev.score + geo.score + cap.score
                             + night.score),
           r.mlRiskScore)

\* C24: for a fixed store, clock, transaction and model score, making the
\* trigger of one rule impossible gives a final score that is at most the
\* final score with the rule enabled, also when the hour rule takes the place
\* of the minute rule.
C24_DisablingIsMonotone ==
  \A p \in DOMAIN pc :
    AfterPredict(p) =>
      /\ req[p].finalRiskScore = ScoreWithout(p, "none")
      /\ \A off \in RuleNames : ScoreWithout(p, off) <= req[p].finalRiskScore

\* the minute rule fired; without it the hour rule fires and the score is lower
C24_Witness ==
  \E p \in DOMAIN pc :
    /\ Served(p)
    /\ req[p].velocityCheck.reason = ReasonVelMinute
    /\ checkVelocity({}, req[p].hourlyTxns).reason = ReasonVelHour
    /\ ScoreWithout(p, "R1") < req[p].finalRiskScore

\* slot p is inside detectFraud or later in the handler, after its zadd
InFlight(p) == pc[p] \notin {"idle", "vel_zadd", "done"}

\* the velocity half of C25: the sample of a request in progress is in
\* velocity:<u>, and the key has a TTL once redis.expire was executed
C25_VelocitySampleCreated ==
  \A p \in DOMAIN pc :
    InFlight(p) =>
      /\ member(req[p].tx.amount, req[p].now) \in velocityKey(req[p].tx.userId)
      /\ pc[p] # "vel_expire" => velTTL[req[p].tx.userId] # NoTTL

\* C25: every transaction evaluated by detectFraud adds one sample
\* (amount, t) to velocity[u] and one to amountHistory[u], each key with its
\* TTL, so the amount history holds every scored transaction of the user.
C25_WindowEntriesCreated ==
  /\ C25_VelocitySampleCreated
  /\ \A p \in DOMAIN pc :
        InFlight(p) /\ Scored(p) =>
          member(req[p].tx.amount, req[p].now) \in amountHist[req[p].tx.userId]

\* the sums of rule contributions, in steps of 0.1 up to all five rules
RuleTotals == {100 * n : n \in 0..29}

C28_Step ==
  /\ Len(txs') >= Len(txs)
  /\ \A i \in DOMAIN txs' :
        IF i \in DOMAIN txs
          THEN /\ txs'[i].riskScore = txs[i].riskScore
               /\ [txs'[i] EXCEPT !.status = ""] = [txs[i] EXCEPT !.status = ""]
               /\ txs'[i].status # txs[i].status =>
                     /\ txs'[i].status \in {"DENIED", "APPROVED"}
                     /\ \E r \in Reports :
                           /\ report[r].pc = "save" /\ report'[r].pc # "save"
                           /\ report[r].transactionId = i
          ELSE /\ txs'[i].status \in {"PENDING", "FLAGGED"}
               /\ \E p \in DOMAIN pc : pc[p] = "tx_save" /\ pc'[p] = "tx_cache"

\* C28: a record is created only as PENDING or FLAGGED; only report-fraud
\* changes its status, and only to DENIED or APPROVED; no step returns a
\* record to PENDING or FLAGGED, and its riskScore never changes.
C28_StatusLifecycle == [][C28_Step]_vars

\* a record created by /check during the run was reported, and the older
\* record went from DENIED to APPROVED or back through two reports
C28_Witness ==
  /\ Len(txs) >= 2
  /\ \E r1, r2 \in Reports :
        /\ report[r1].status = 200 /\ report[r2].status = 200
        /\ report[r1].wasActuallyFraud = "true"
        /\ report[r2].wasActuallyFraud = "false"
        /\ report[r1].transactionId = report[r2].transactionId
        /\ txs[report[r1].transactionId].status = "APPROVED"

\* the status that the body of report r asks for
C29_Asked(r) == IF report[r].wasActuallyFraud = "true" THEN "DENIED" ELSE "APPROVED"

\* the step in which the model update of report r fails: the save resolved and
\* the model is missing, or preprocessFeatures, fit or incr throws
C29_UpdateFails(r) ==
  \/ model = "null" /\ ReportSave(r)
  \/ /\ report[r].pc \in {"features", "incr"}
     /\ report'[r].pc = "done"
     /\ report'[r].status = 500

C29_Step ==
  \A r \in Reports :
    /\ C29_UpdateFails(r) =>
          /\ report'[r].pc = "done" /\ report'[r].status = 500
          /\ txs'[report[r].transactionId].status \in {"DENIED", "APPROVED"}
          /\ version' = version
    /\ model = "null" /\ ReportSave(r) =>
          txs'[report[r].transactionId].status = C29_Asked(r)

\* while the model update of a report is under way the record is already saved
C29_SavedFirst ==
  \A r \in Reports :
    report[r].pc \in {"features", "fit", "incr"} =>
      txs[report[r].transactionId].status \in {"DENIED", "APPROVED"}

\* C29: report-fraud is not atomic: the status is saved before the model update
\* is attempted, so when the model is missing or the update fails the request
\* is answered 500 while the record is already DENIED/APPROVED and the model
\* version is unchanged.
C29_NotAtomic == []C29_SavedFirst /\ [][C29_Step]_vars

\* a report on the PENDING record was answered 500 with the model missing:
\* the record is DENIED, no fit was made and the version is the initial one
C29_Witness ==
  \E r \in Reports :
    /\ report[r].pc = "done" /\ report[r].status = 500
    /\ report[r].wasActuallyFraud = "true" /\ ~report[r].fitted
    /\ report[r].transactionId \in DOMAIN txs
    /\ \A q \in Reports \ {r} : report[q].pc = "idle"
    /\ model = "null"
    /\ txs[report[r].transactionId].status = "DENIED"
    /\ version = 0

(***************************************************************************)
(* Two users on one device that no one has used before                     *)
(***************************************************************************)
ShareProcs == {1, 2}
ShareLoad  == {Tx(u, "d1", 5000, NoLoc) : u \in Users}

ShareInit ==
  /\ workload = ShareLoad
  /\ clock = StartClock
  /\ velocity = [u \in Users |-> {}]
  /\ velTTL = [u \in Users |-> NoTTL]
  /\ amountHist = [u \in Users |-> {}]
  /\ device = [d \in Devices |-> {}]
  /\ lastGeo = [u \in Users |-> NoGeo]
  /\ model = "null"
  /\ mlpc = "failed"
  /\ pc = [p \in ShareProcs |-> "idle"]
  /\ req = [p \in ShareProcs |-> EmptyReq]
  /\ resp = [p \in ShareProcs |-> NoResp]
  /\ txs = <<>>
  /\ txCache = {}
  /\ env = DefaultEnv
  /\ version = 0
  /\ weights = NoWeights
  /\ training = FALSE
  /\ disk = NoWeights
  /\ report = [r \in Reports |-> NoReport]
  /\ history = [u \in Users |-> NoHistory]

\* the handlers interleave at every await
ShareNext ==
  \E p \in ShareProcs :
    \/ \E delay \in RaceDelays : CheckStart(p, delay)
    \/ VelZadd(p) \/ VelExpire(p) \/ VelMinute(p) \/ VelHour(p)
    \/ DevSmembers(p) \/ DevSadd(p)
    \/ TxSave(p) \/ TxCache(p)

ShareSpec == ShareInit /\ [][ShareNext]_vars

\* checkDeviceRisk of slot p has returned
DeviceChecked(p) == pc[p] \in {"tx_save", "tx_cache", "done"}

\* C30: when two /check requests of two different users run on the same
\* previously unseen device, in every interleaving of their smembers/sadd
\* operations at least one of the two triggers "Device associated with
\* multiple users".
C30_SharingDetected ==
  \A p, q \in DOMAIN pc :
    /\ DeviceChecked(p) /\ DeviceChecked(q)
    /\ req[p].tx.userId # req[q].tx.userId
    /\ req[p].tx.deviceId = req[q].tx.deviceId
    => ReasonDevice \in Reasons(p) \cup Reasons(q)

\* the same two requests one after the other: the later one fires the rule
C30_SerialDetected ==
  \A p, q \in DOMAIN pc :
    /\ DeviceChecked(p) /\ DeviceChecked(q)
    /\ req[p].tx.userId # req[q].tx.userId
    /\ req[p].tx.userId \in req[q].userIds
    => ReasonDevice \in Reasons(q)

====
